---- MODULE Spec2Model ----
(***************************************************************************)
(* Model of vm/src/stdlib/io.rs: the in-memory streams (BufferedIO,        *)
(* StringIO, BytesIO), the _IOBase close protocol, and the descriptor      *)
(* chain TextIOWrapper -> Buffered{Reader,Writer} -> FileIO.               *)
(*                                                                         *)
(* Encodings used throughout:                                              *)
(*   Option<T>      <<>> is None, <<x>> is Some(x)                         *)
(*   Vec<u8>/String a sequence of byte values (a String is its UTF-8)      *)
(*   PyResult       [ok, err, val, num, flag]; see OkNone and Err          *)
(***************************************************************************)
EXTENDS Integers, Sequences, FiniteSets, TLC

VARIABLES
    kind,           \* which in-memory class the object is: "bytes" or "string"
    buffer,         \* PyBytesIO.buffer / PyStringIO.buffer: Option<BufferedIO>
    call,           \* the most recent call: method, argument, state before, result
    history,        \* a scripted call sequence records its calls here, after
                    \* the constructor's entry; <<>> when nothing is recorded
    chain,          \* what io_open built: [mode, typ] of the parsed mode string
    attrs,          \* attrs[obj][name]: the attributes set on each stream object
    fdOpen,         \* whether the descriptor obtained by os_open is still open
    closeCalls,     \* how often the OS released (closed) that descriptor number
    closeCalledOn,  \* the objects on which close() has been called
    modeArg,        \* the optional mode argument of open() / FileIO(): <<>> or <<string>>
    opened          \* what the latest split_mode_string / FileIO() / open() call did

memVars == <<kind, buffer, history>>
fdVars == <<chain, attrs, fdOpen, closeCalls, closeCalledOn>>
openVars == <<modeArg, opened>>
vars == <<kind, buffer, call, history, chain, attrs, fdOpen, closeCalls, closeCalledOn,
          modeArg, opened>>

\* ------------------------------------------------------------------ bounds
MaxLen == 3
MaxPos == 4
MaxData == 2
MaxRead == 3
MaxCloseCalls == 3
MaxLineReads == 2
MaxFdData == 1

\* Byte values the model draws from: NUL (also the padding byte), newline,
\* and the two bytes of a two-byte UTF-8 character.
Byte == {0, 10, 195, 169}

Min(a, b) == IF a < b THEN a ELSE b
Max(a, b) == IF a > b THEN a ELSE b

RECURSIVE SeqsOfLen(_, _)
SeqsOfLen(S, k) ==
    IF k = 0 THEN {<<>>}
    ELSE {Append(s, x) : s \in SeqsOfLen(S, k - 1), x \in S}

SeqsUpTo(S, n) == UNION {SeqsOfLen(S, k) : k \in 0..n}

\* A PyResult.  The value of a successful call is in the field of its type
\* (bytes or str in val, an integer in num, a boolean in flag).
OkNone == [ok |-> TRUE, err |-> "", val |-> <<>>, num |-> 0, flag |-> FALSE]
OkBytes(v) == [OkNone EXCEPT !.val = v]
OkInt(n) == [OkNone EXCEPT !.num = n]
OkBool(b) == [OkNone EXCEPT !.flag = b]
Err(m) == [OkNone EXCEPT !.ok = FALSE, !.err = m]

ClosedMsg == "I/O operation on closed file."

\* ------------------------------------------------------------------ UTF-8
\* Width of the UTF-8 sequence that starts at offset i of b (first byte
\* b[i+1]), or 0 when no valid complete sequence starts there.
utf8_char_width(b, i) ==
    LET first == b[i + 1]
        has(k) == i + k <= Len(b)
        cont(j) == b[i + j] \in 128..191
    IN  IF first < 128 THEN 1
        ELSE IF first \in 194..223
            THEN IF has(2) /\ cont(2) THEN 2 ELSE 0
        ELSE IF first = 224
            THEN IF has(3) /\ b[i + 2] \in 160..191 /\ cont(3) THEN 3 ELSE 0
        ELSE IF first \in (225..236) \cup (238..239)
            THEN IF has(3) /\ cont(2) /\ cont(3) THEN 3 ELSE 0
        ELSE IF first = 237
            THEN IF has(3) /\ b[i + 2] \in 128..159 /\ cont(3) THEN 3 ELSE 0
        ELSE IF first = 240
            THEN IF has(4) /\ b[i + 2] \in 144..191 /\ cont(3) /\ cont(4) THEN 4 ELSE 0
        ELSE IF first \in 241..243
            THEN IF has(4) /\ cont(2) /\ cont(3) /\ cont(4) THEN 4 ELSE 0
        ELSE IF first = 244
            THEN IF has(4) /\ b[i + 2] \in 128..143 /\ cont(3) /\ cont(4) THEN 4 ELSE 0
        ELSE 0

RECURSIVE valid_up_to_from(_, _)
valid_up_to_from(b, i) ==
    IF i >= Len(b) THEN Len(b)
    ELSE LET w == utf8_char_width(b, i)
         IN  IF w = 0 THEN i ELSE valid_up_to_from(b, i + w)

\* Utf8Error::valid_up_to of String::from_utf8(b); Len(b) when b is valid.
valid_up_to(b) == valid_up_to_from(b, 0)

\* String::from_utf8(b).is_ok()
from_utf8_ok(b) == valid_up_to(b) = Len(b)

\* ------------------------------------------------------------- BufferedIO
\* A cursor is Cursor<Vec<u8>>: [inner |-> bytes, pos |-> position].
Cursor(bytes) == [inner |-> bytes, pos |-> 0]

RECURSIVE Zeros(_)
Zeros(n) == IF n = 0 THEN <<>> ELSE Append(Zeros(n - 1), 0)

byte_count(bytes) == IF bytes = <<>> THEN -1 ELSE bytes[1]

\* Write::write for Cursor<Vec<u8>>: pad with zeros up to pos, overwrite,
\* append the rest, advance pos.
vec_write(cursor, data) ==
    LET pos == cursor.pos
        vec == IF Len(cursor.inner) < pos
               THEN cursor.inner \o Zeros(pos - Len(cursor.inner))
               ELSE cursor.inner
    IN  [inner |-> SubSeq(vec, 1, pos) \o data
                   \o SubSeq(vec, pos + Len(data) + 1, Len(vec)),
         pos |-> pos + Len(data)]

\* A write that appends at the end when the position is past it.
BufferedIO_write_no_padding(cursor, data) ==
    [cursor |-> IF data = <<>> THEN cursor
                ELSE vec_write([cursor EXCEPT !.pos = Min(@, Len(cursor.inner))], data),
     ret |-> <<Len(data)>>]

\* BufferedIO::write: write_all calls write only while data remains.
BufferedIO_write(cursor, data) ==
    [cursor |-> IF data = <<>> THEN cursor ELSE vec_write(cursor, data),
     ret |-> <<Len(data)>>]

\* A getvalue that returns only what lies from the position on.
BufferedIO_getvalue_from_position(cursor) ==
    SubSeq(cursor.inner, Min(cursor.pos, Len(cursor.inner)) + 1, Len(cursor.inner))

BufferedIO_getvalue(cursor) == cursor.inner

\* A seek relative to the current position (SeekFrom::Current).
BufferedIO_seek_relative(cursor, offset) ==
    [cursor |-> [cursor EXCEPT !.pos = @ + offset], ret |-> <<offset>>]

BufferedIO_seek(cursor, offset) ==
    [cursor |-> [cursor EXCEPT !.pos = offset], ret |-> <<offset>>]

\* A read that treats every non-positive count as "read nothing".
BufferedIO_read_nothing_unless_positive(cursor, bytes) ==
    LET len == Len(cursor.inner)
        start == Min(cursor.pos, len)
        n == IF bytes > 0 THEN Min(bytes, len - start) ELSE 0
    IN  [cursor |-> [cursor EXCEPT !.pos = @ + n],
         ret |-> <<SubSeq(cursor.inner, start + 1, start + n)>>]

\* A read that advances the position by the count asked for.
BufferedIO_read_advances_by_count(cursor, bytes) ==
    LET len == Len(cursor.inner)
        start == Min(cursor.pos, len)
        n == IF bytes > 0 THEN Min(bytes, len - start) ELSE len - start
    IN  [cursor |-> [cursor EXCEPT !.pos = @ + (IF bytes > 0 THEN bytes ELSE n)],
         ret |-> <<SubSeq(cursor.inner, start + 1, start + n)>>]

\* BufferedIO::read: a positive count reads through take(bytes); any other
\* count takes the read_to_end branch.
BufferedIO_read(cursor, bytes) ==
    LET len == Len(cursor.inner)
        start == Min(cursor.pos, len)
        n == IF bytes > 0 THEN Min(bytes, len - start) ELSE len - start
    IN  [cursor |-> [cursor EXCEPT !.pos = @ + n],
         ret |-> <<SubSeq(cursor.inner, start + 1, start + n)>>]

BufferedIO_tell(cursor) == cursor.pos

\* BufferedIO::readline: read_line consumes through the next newline (or to
\* the end), then fails when the consumed bytes are not valid UTF-8.
BufferedIO_readline(cursor) ==
    LET len == Len(cursor.inner)
        start == Min(cursor.pos, len)
        nls == {i \in (start + 1)..len : cursor.inner[i] = 10}
        stop == IF nls = {} THEN len ELSE CHOOSE i \in nls : \A j \in nls : i <= j
        line == SubSeq(cursor.inner, start + 1, stop)
    IN  [cursor |-> [cursor EXCEPT !.pos = @ + Len(line)],
         ret |-> IF from_utf8_ok(line) THEN <<line>> ELSE <<>>]

\* Vec::truncate through cursor.get_mut(): shortens only.
Vec_truncate(cursor, size) ==
    [cursor EXCEPT !.inner = SubSeq(@, 1, Min(size, Len(@)))]

\* ------------------------------------------------------------ PyBytesIORef
\* The closed guard: buffer() fails once the Option is None.
PyBytesIORef_buffer(buf) ==
    IF buf # <<>> THEN OkNone ELSE Err(ClosedMsg)

PyBytesIORef_write(buf, data) ==
    LET b == PyBytesIORef_buffer(buf)
        r == BufferedIO_write(buf[1], data)
    IN  IF ~b.ok THEN [buffer |-> buf, res |-> b]
        ELSE [buffer |-> <<r.cursor>>,
              res |-> IF r.ret # <<>> THEN OkInt(r.ret[1]) ELSE Err("Error Writing Bytes")]

PyBytesIORef_getvalue(buf) ==
    LET b == PyBytesIORef_buffer(buf)
    IN  IF ~b.ok THEN [buffer |-> buf, res |-> b]
        ELSE [buffer |-> buf, res |-> OkBytes(BufferedIO_getvalue(buf[1]))]

PyBytesIORef_seek(buf, offset) ==
    LET b == PyBytesIORef_buffer(buf)
        r == BufferedIO_seek(buf[1], offset)
    IN  IF ~b.ok THEN [buffer |-> buf, res |-> b]
        ELSE [buffer |-> <<r.cursor>>,
              res |-> IF r.ret # <<>> THEN OkInt(r.ret[1])
                      ELSE Err("Error Performing Operation")]

PyBytesIORef_read(buf, bytes) ==
    LET b == PyBytesIORef_buffer(buf)
        r == BufferedIO_read(buf[1], byte_count(bytes))
    IN  IF ~b.ok THEN [buffer |-> buf, res |-> b]
        ELSE [buffer |-> <<r.cursor>>,
              res |-> IF r.ret # <<>> THEN OkBytes(r.ret[1])
                      ELSE Err("Error Retrieving Value")]

PyBytesIORef_tell(buf) ==
    LET b == PyBytesIORef_buffer(buf)
    IN  IF ~b.ok THEN [buffer |-> buf, res |-> b]
        ELSE [buffer |-> buf, res |-> OkInt(BufferedIO_tell(buf[1]))]

PyBytesIORef_readline(buf) ==
    LET b == PyBytesIORef_buffer(buf)
        r == BufferedIO_readline(buf[1])
    IN  IF ~b.ok THEN [buffer |-> buf, res |-> b]
        ELSE [buffer |-> <<r.cursor>>,
              res |-> IF r.ret # <<>> THEN OkBytes(r.ret[1])
                      ELSE Err("Error Performing Operation")]

\* A truncate that resizes: it pads with zeros up to size (Vec::resize).
PyBytesIORef_truncate_resizes(buf, size) ==
    LET b == PyBytesIORef_buffer(buf)
        sz == IF size = <<>> THEN BufferedIO_tell(buf[1]) ELSE size[1]
        v == buf[1].inner
    IN  IF ~b.ok THEN [buffer |-> buf, res |-> b]
        ELSE [buffer |-> <<[buf[1] EXCEPT !.inner =
                               IF sz <= Len(v) THEN SubSeq(v, 1, sz)
                               ELSE v \o Zeros(sz - Len(v))]>>,
              res |-> OkNone]

PyBytesIORef_truncate(buf, size) ==
    LET b == PyBytesIORef_buffer(buf)
        sz == IF size = <<>> THEN BufferedIO_tell(buf[1]) ELSE size[1]
    IN  IF ~b.ok THEN [buffer |-> buf, res |-> b]
        ELSE [buffer |-> <<Vec_truncate(buf[1], sz)>>, res |-> OkNone]

PyBytesIORef_closed(buf) == [buffer |-> buf, res |-> OkBool(buf = <<>>)]

\* A close that does not drop the buffer.
PyBytesIORef_close_keeps_buffer(buf) == [buffer |-> buf, res |-> OkNone]

PyBytesIORef_close(buf) == [buffer |-> <<>>, res |-> OkNone]

\* ----------------------------------------------------------- PyStringIORef
\* The closed guard: buffer() fails once the Option is None.
PyStringIORef_buffer(buf) ==
    IF buf # <<>> THEN OkNone ELSE Err(ClosedMsg)

PyStringIORef_write(buf, data) ==
    LET b == PyStringIORef_buffer(buf)
        r == BufferedIO_write(buf[1], data)
    IN  IF ~b.ok THEN [buffer |-> buf, res |-> b]
        ELSE [buffer |-> <<r.cursor>>,
              res |-> IF r.ret # <<>> THEN OkInt(r.ret[1]) ELSE Err("Error Writing String")]

PyStringIORef_getvalue(buf) ==
    LET b == PyStringIORef_buffer(buf)
        v == BufferedIO_getvalue(buf[1])
    IN  IF ~b.ok THEN [buffer |-> buf, res |-> b]
        ELSE [buffer |-> buf,
              res |-> IF from_utf8_ok(v) THEN OkBytes(v) ELSE Err("Error Retrieving Value")]

PyStringIORef_seek(buf, offset) ==
    LET b == PyStringIORef_buffer(buf)
        r == BufferedIO_seek(buf[1], offset)
    IN  IF ~b.ok THEN [buffer |-> buf, res |-> b]
        ELSE [buffer |-> <<r.cursor>>,
              res |-> IF r.ret # <<>> THEN OkInt(r.ret[1])
                      ELSE Err("Error Performing Operation")]

PyStringIORef_read(buf, bytes) ==
    LET b == PyStringIORef_buffer(buf)
        r == BufferedIO_read(buf[1], byte_count(bytes))
        data == IF r.ret # <<>> THEN r.ret[1] ELSE <<>>
    IN  IF ~b.ok THEN [buffer |-> buf, res |-> b]
        ELSE [buffer |-> <<r.cursor>>,
              res |-> IF from_utf8_ok(data) THEN OkBytes(data)
                      ELSE Err("Error Retrieving Value")]

PyStringIORef_tell(buf) ==
    LET b == PyStringIORef_buffer(buf)
    IN  IF ~b.ok THEN [buffer |-> buf, res |-> b]
        ELSE [buffer |-> buf, res |-> OkInt(BufferedIO_tell(buf[1]))]

PyStringIORef_readline(buf) ==
    LET b == PyStringIORef_buffer(buf)
        r == BufferedIO_readline(buf[1])
    IN  IF ~b.ok THEN [buffer |-> buf, res |-> b]
        ELSE [buffer |-> <<r.cursor>>,
              res |-> IF r.ret # <<>> THEN OkBytes(r.ret[1])
                      ELSE Err("Error Performing Operation")]

PyStringIORef_truncate(buf, size) ==
    LET b == PyStringIORef_buffer(buf)
        sz == IF size = <<>> THEN BufferedIO_tell(buf[1]) ELSE size[1]
    IN  IF ~b.ok THEN [buffer |-> buf, res |-> b]
        ELSE [buffer |-> <<Vec_truncate(buf[1], sz)>>, res |-> OkNone]

PyStringIORef_closed(buf) == [buffer |-> buf, res |-> OkBool(buf = <<>>)]

PyStringIORef_close(buf) == [buffer |-> <<>>, res |-> OkNone]

\* --------------------------------------------- in-memory stream: the calls
\* Arguments a caller can pass.  A StringIO is written and constructed from
\* str values only, so its data is valid UTF-8.
BytesData(n) == SeqsUpTo(Byte, n)
StrData(n) == {d \in SeqsUpTo(Byte, n) : from_utf8_ok(d)}
DataFor(k, n) == IF k = "bytes" THEN BytesData(n) ELSE StrData(n)
ReadArgs == {<<>>} \cup {<<n>> : n \in (-2)..MaxRead}
SeekArgs == 0..MaxPos
TruncateArgs == {<<>>} \cup {<<n>> : n \in 0..MaxPos}

NoCall == [op |-> "new", arg |-> <<>>, before |-> <<>>, res |-> OkNone]

\* What "opened" holds: op is the function called; for split_mode_string
\* ok/err/errArg/mode/typ are its Result (errArg: the string quoted in the
\* message); for FileIO() and open() flags is what os_open was called with
\* (os_opens times), panicked says the call ended in a panic, and handle /
\* buffer / raw are the classes of the object returned, of its "buffer"
\* attribute, and of the descriptor stream at the bottom.
NoOpen ==
    [op |-> "none", ok |-> TRUE, err |-> "", errArg |-> <<>>, mode |-> <<>>,
     typ |-> <<>>, flags |-> {}, os_opens |-> 0, panicked |-> FALSE,
     handle |-> "", buffer |-> "", raw |-> ""]

\* No mode string is parsed and nothing is opened while a stream is exercised.
NoOpenCall ==
    /\ modeArg = <<>>
    /\ opened = NoOpen

\* No descriptor stream exists while an in-memory stream is exercised.
NoDescriptor ==
    /\ chain = <<>>
    /\ attrs = <<>>
    /\ fdOpen = FALSE
    /\ closeCalls = 0
    /\ closeCalledOn = {}

\* bytes_io_new / string_io_new
string_io_new(raw_string) == <<Cursor(raw_string)>>

\* A constructor that drops the initial contents.
bytes_io_new_empty(raw_bytes) == <<Cursor(<<>>)>>

bytes_io_new(raw_bytes) == <<Cursor(raw_bytes)>>

Init ==
    /\ kind \in {"bytes", "string"}
    /\ \E raw \in DataFor(kind, MaxLen) :
          buffer = IF kind = "bytes" THEN bytes_io_new(raw) ELSE string_io_new(raw)
    /\ call = NoCall
    /\ history = <<>>
    /\ NoDescriptor
    /\ NoOpenCall

\* One method call on the stream object: r is what the method computed.
Invoke(op, arg, r) ==
    /\ buffer' = r.buffer
    /\ call' = [op |-> op, arg |-> arg, before |-> buffer, res |-> r.res]
    /\ history' = IF history = <<>> THEN history ELSE Append(history, call')
    /\ UNCHANGED <<kind, fdVars, openVars>>

Write(data) ==
    /\ buffer # <<>> => Max(buffer[1].pos, Len(buffer[1].inner)) + Len(data) <= MaxLen
    /\ Invoke("write", data,
              IF kind = "bytes" THEN PyBytesIORef_write(buffer, data)
              ELSE PyStringIORef_write(buffer, data))

Getvalue ==
    Invoke("getvalue", <<>>,
           IF kind = "bytes" THEN PyBytesIORef_getvalue(buffer)
           ELSE PyStringIORef_getvalue(buffer))

Read(bytes) ==
    Invoke("read", bytes,
           IF kind = "bytes" THEN PyBytesIORef_read(buffer, bytes)
           ELSE PyStringIORef_read(buffer, bytes))

Seek(offset) ==
    Invoke("seek", <<offset>>,
           IF kind = "bytes" THEN PyBytesIORef_seek(buffer, offset)
           ELSE PyStringIORef_seek(buffer, offset))

Tell ==
    Invoke("tell", <<>>,
           IF kind = "bytes" THEN PyBytesIORef_tell(buffer)
           ELSE PyStringIORef_tell(buffer))

Readline ==
    Invoke("readline", <<>>,
           IF kind = "bytes" THEN PyBytesIORef_readline(buffer)
           ELSE PyStringIORef_readline(buffer))

Truncate(size) ==
    Invoke("truncate", size,
           IF kind = "bytes" THEN PyBytesIORef_truncate(buffer, size)
           ELSE PyStringIORef_truncate(buffer, size))

Closed ==
    Invoke("closed", <<>>,
           IF kind = "bytes" THEN PyBytesIORef_closed(buffer)
           ELSE PyStringIORef_closed(buffer))

Close ==
    Invoke("close", <<>>,
           IF kind = "bytes" THEN PyBytesIORef_close(buffer)
           ELSE PyStringIORef_close(buffer))

Next ==
    \/ \E data \in DataFor(kind, MaxData) : Write(data)
    \/ Getvalue
    \/ \E bytes \in ReadArgs : Read(bytes)
    \/ \E offset \in SeekArgs : Seek(offset)
    \/ Tell
    \/ Readline
    \/ \E size \in TruncateArgs : Truncate(size)
    \/ Closed
    \/ Close

Spec == Init /\ [][Next]_vars

\* --------------------------------------------------- scripted round trip
\* write(d); seek(0); read() on a fresh BytesIO, one call per step.
InitRoundTrip ==
    /\ kind = "bytes"
    /\ buffer = bytes_io_new(<<>>)
    /\ call = NoCall
    /\ history = <<NoCall>>
    /\ NoDescriptor
    /\ NoOpenCall

RoundTripWrite(data) == Len(history) = 1 /\ Write(data)
RoundTripSeek == Len(history) = 2 /\ Seek(0)
RoundTripRead == Len(history) = 3 /\ Read(<<>>)

NextRoundTrip ==
    \/ \E data \in BytesData(MaxLen) : RoundTripWrite(data)
    \/ RoundTripSeek
    \/ RoundTripRead

SpecRoundTrip == InitRoundTrip /\ [][NextRoundTrip]_vars

\* ------------------------------------------ scripted read without a seek
\* BytesIO(raw), then read(-1) at once, or write(d) and then read(-1).
\* history[1].arg keeps the contents the buffer was constructed with.
InitWriteRead ==
    /\ kind = "bytes"
    /\ \E raw \in BytesData(MaxData) :
          /\ buffer = bytes_io_new(raw)
          /\ history = <<[NoCall EXCEPT !.arg = raw]>>
    /\ call = NoCall
    /\ NoDescriptor
    /\ NoOpenCall

WriteReadWrite(data) == Len(history) = 1 /\ Write(data)
WriteReadRead ==
    /\ Len(history) = 1 \/ (Len(history) = 2 /\ history[2].op = "write")
    /\ Read(<<-1>>)

NextWriteRead ==
    \/ \E data \in BytesData(MaxData) : WriteReadWrite(data)
    \/ WriteReadRead

SpecWriteRead == InitWriteRead /\ [][NextWriteRead]_vars

\* ------------------------------------------------------------- iteration
\* io_base_next on an in-memory stream: readline as resolved on the object,
\* StopIteration when the line is falsy (empty), the line otherwise.
io_base_next(k, buf) ==
    LET line == IF k = "bytes" THEN PyBytesIORef_readline(buf)
                ELSE PyStringIORef_readline(buf)
    IN  IF ~line.res.ok THEN line
        ELSE IF line.res.val = <<>>
        THEN [buffer |-> line.buffer, res |-> Err("StopIteration")]
        ELSE line

\* BytesIO(raw) or StringIO(raw), at most one seek, then next() until it
\* signals the end.  history[1].arg keeps the contents the stream was
\* constructed with.
InitIter ==
    /\ kind \in {"bytes", "string"}
    /\ \E raw \in DataFor(kind, MaxLen) :
          /\ buffer = IF kind = "bytes" THEN bytes_io_new(raw) ELSE string_io_new(raw)
          /\ history = <<[NoCall EXCEPT !.arg = raw]>>
    /\ call = NoCall
    /\ NoDescriptor
    /\ NoOpenCall

IterSeek(offset) == Len(history) = 1 /\ Seek(offset)

IterNext ==
    /\ call.res.err # "StopIteration"
    /\ Invoke("next", <<>>, io_base_next(kind, buffer))

NextIter ==
    \/ \E offset \in SeekArgs : IterSeek(offset)
    \/ IterNext

SpecIter == InitIter /\ [][NextIter]_vars

\* ------------------------------------------------------ descriptor chain
\* The objects io_open builds: a FileIO ("raw"), the Buffered{Reader,Writer}
\* around it ("buffered"), and for a text mode the TextIOWrapper around that
\* ("text").  "base" is an instance of a subclass of _IOBase that overrides
\* flush() only.
Objects(c) == {"buffered", "raw", "base"} \cup (IF c.typ = "t" THEN {"text"} ELSE {})

\* A composition that puts a BufferedReader over every descriptor stream.
ClassOf_reader_only(c, obj) ==
    CASE obj = "text" -> "TextIOWrapper"
      [] obj = "buffered" -> "BufferedReader"
      [] obj = "raw" -> "FileIO"
      [] obj = "base" -> "IOBaseSubclass"

ClassOf(c, obj) ==
    CASE obj = "text" -> "TextIOWrapper"
      [] obj = "buffered" -> IF c.mode = "w" THEN "BufferedWriter" ELSE "BufferedReader"
      [] obj = "raw" -> "FileIO"
      [] obj = "base" -> "IOBaseSubclass"

\* The state a call works on, and the OS and flush events it has issued so
\* far (ok: whether the event succeeded; n: the bytes it transferred; data:
\* those bytes; live: whether the descriptor was still open when it happened).
Cur == [attrs |-> attrs, fdOpen |-> fdOpen, closeCalls |-> closeCalls, events |-> <<>>]

Ret(s, res) == [s |-> s, res |-> res]

Event(s, ev, obj, ok, n, data) ==
    [s EXCEPT !.events = Append(@, [ev |-> ev, obj |-> obj, ok |-> ok, n |-> n,
                                    data |-> data, live |-> s.fdOpen])]

get_attribute(s, obj, name) == s.attrs[obj][name]

set_attr(s, obj, name, v) == [s EXCEPT !.attrs[obj][name] = v]

\* close(2) on the stored descriptor number: libc::close in file_io_close,
\* or the drop of the fs::File that fio_get_fileno handed out.
os_close(s) ==
    [Event(s, "close", "raw", TRUE, 0, <<>>) EXCEPT !.fdOpen = FALSE, !.closeCalls = @ + 1]

io_base_flush(s, obj) == Ret(Event(s, "flush", obj, TRUE, 0, <<>>), OkNone)

\* flush() as resolved on the object: the subclass's override may raise.
call_flush(s, c, obj, flush_ok) ==
    IF ClassOf(c, obj) = "IOBaseSubclass" /\ ~flush_ok
    THEN Ret(Event(s, "flush", obj, FALSE, 0, <<>>), Err("flush failed"))
    ELSE io_base_flush(s, obj)

io_base_closed(s, obj) == get_attribute(s, obj, "__closed")

\* The attribute "closed": the instance attribute file_io_init sets on a
\* FileIO, else the _IOBase property.
closed_attr(s, obj) ==
    IF "closed" \in DOMAIN s.attrs[obj]
    THEN get_attribute(s, obj, "closed")
    ELSE io_base_closed(s, obj)

\* A close that returns the flush failure before it sets the flag.
io_base_close_flush_first(s, c, obj, flush_ok) ==
    LET closed == io_base_closed(s, obj)
        res == call_flush(s, c, obj, flush_ok)
    IN  IF ~closed
        THEN IF res.res.ok THEN Ret(set_attr(res.s, obj, "__closed", TRUE), OkNone)
             ELSE Ret(res.s, res.res)
        ELSE Ret(s, OkNone)

io_base_close(s, c, obj, flush_ok) ==
    LET closed == io_base_closed(s, obj)
        res == call_flush(s, c, obj, flush_ok)
        s2 == set_attr(res.s, obj, "__closed", TRUE)
    IN  IF ~closed
        THEN Ret(s2, IF res.res.ok THEN OkNone ELSE res.res)
        ELSE Ret(s, OkNone)

io_base_checkclosed(s, obj) ==
    IF closed_attr(s, obj) THEN Err(ClosedMsg) ELSE OkNone

\* fio_get_fileno: Ok stands for an fs::File that owns attrs.raw.__fileno.
fio_get_fileno(s) == io_base_checkclosed(s, "raw")

\* fio_set_fileno: the File gives the descriptor number back unclosed.
fio_set_fileno(s) ==
    set_attr(s, "raw", "__fileno", get_attribute(s, "raw", "__fileno"))

\* out is what the OS does with the read: [ok, data].  On an OS error the
\* function returns before fio_set_fileno and the File is dropped.
file_io_read(s, read_byte, out) ==
    LET handle == fio_get_fileno(s)
        s1 == Event(s, "read", "raw", out.ok, Len(out.data), out.data)
    IN  IF ~handle.ok THEN Ret(s, handle)
        ELSE IF ~out.ok THEN Ret(os_close(s1), Err("OSError"))
        ELSE Ret(fio_set_fileno(s1), OkBytes(out.data))

file_io_readinto(s, readonly, out) ==
    LET handle == fio_get_fileno(s)
        s1 == Event(s, "read", "raw", out.ok, Len(out.data), out.data)
    IN  IF ~readonly
        THEN Ret(s, Err("readinto() argument must be read-write bytes-like object"))
        ELSE IF ~handle.ok THEN Ret(s, handle)
        ELSE IF ~out.ok THEN Ret(os_close(s1), Err("Error reading from Take"))
        ELSE Ret(fio_set_fileno(s1), OkNone)

\* out is what the OS does with the single write: [ok, n], n bytes accepted.
file_io_write(s, data, out) ==
    LET handle == fio_get_fileno(s)
        s1 == Event(s, "write", "raw", out.ok, out.n, SubSeq(data, 1, out.n))
    IN  IF ~handle.ok THEN Ret(s, handle)
        ELSE IF ~out.ok THEN Ret(os_close(s1), Err("OSError"))
        ELSE Ret(fio_set_fileno(s1), OkInt(out.n))

file_io_close(s) ==
    Ret(set_attr(set_attr(os_close(s), "raw", "closefd", TRUE), "raw", "closed", TRUE),
        OkNone)

file_io_fileno(s) == Ret(s, OkInt(get_attribute(s, "raw", "__fileno")))

buffered_io_base_fileno(s) == file_io_fileno(s)

buffered_reader_read(s, size, out) == file_io_read(s, <<byte_count(size)>>, out)

buffered_reader_close(s) == file_io_close(s)

buffered_writer_write(s, data, out) == file_io_write(s, data, out)

\* io_base_readline on a FileIO or a BufferedReader: read(1) until an empty
\* read, a newline or size bytes.  outs lists what the OS does with each
\* read; valid says that outs is exactly what the loop consumed.
RECURSIVE readline_loop(_, _, _, _, _)
readline_loop(s, obj, size, res, outs) ==
    IF ~(size < 0 \/ Len(res) < size)
    THEN [s |-> s, res |-> OkBytes(res), valid |-> outs = <<>>]
    ELSE IF outs = <<>>
    THEN [s |-> s, res |-> OkBytes(res), valid |-> FALSE]
    ELSE LET r == IF obj = "raw" THEN file_io_read(s, <<1>>, Head(outs))
                  ELSE buffered_reader_read(s, <<1>>, Head(outs))
             res2 == res \o r.res.val
         IN  IF ~r.res.ok
             THEN [s |-> r.s, res |-> r.res, valid |-> Tail(outs) = <<>>]
             ELSE IF r.res.val = <<>>
             THEN [s |-> r.s, res |-> OkBytes(res), valid |-> Tail(outs) = <<>>]
             ELSE IF res2[Len(res2)] = 10
             THEN [s |-> r.s, res |-> OkBytes(res2), valid |-> Tail(outs) = <<>>]
             ELSE readline_loop(r.s, obj, size, res2, Tail(outs))

io_base_readline(s, c, obj, size, outs) ==
    IF ClassOf(c, obj) \in {"FileIO", "BufferedReader"}
    THEN readline_loop(s, obj, byte_count(size), <<>>, outs)
    ELSE [s |-> s, res |-> Err("AttributeError"), valid |-> outs = <<>>]

\* String::from_utf8 with the text layer's error: num carries valid_up_to.
\* A decode error that reports the first byte outside ASCII.
decode_utf8_first_non_ascii(bytes) ==
    IF from_utf8_ok(bytes) THEN OkBytes(bytes)
    ELSE [Err("cannot decode byte at index") EXCEPT
              !.num = LET S == {j \in 1..Len(bytes) : bytes[j] >= 128}
                      IN  (CHOOSE j \in S : \A k \in S : j <= k) - 1]

decode_utf8(bytes) ==
    IF from_utf8_ok(bytes) THEN OkBytes(bytes)
    ELSE [Err("cannot decode byte at index") EXCEPT !.num = valid_up_to(bytes)]

\* A count of bytes instead of characters.
chars_count_bytes(bytes) == Len(bytes)

\* str::chars().count() of valid UTF-8: the bytes that start a character.
chars_count(bytes) == Cardinality({i \in 1..Len(bytes) : bytes[i] \notin 128..191})

\* A read that looks at the class of the inner stream only after reading.
text_io_wrapper_read_checks_late(s, c, size, out) ==
    LET r == buffered_reader_read(s, size, out)
    IN  IF ~r.res.ok THEN r
        ELSE IF ClassOf(c, "buffered") # "BufferedReader"
        THEN Ret(r.s, Err("not readable"))
        ELSE Ret(r.s, decode_utf8(r.res.val))

text_io_wrapper_read(s, c, size, out) ==
    LET r == buffered_reader_read(s, size, out)
    IN  IF ClassOf(c, "buffered") # "BufferedReader" THEN Ret(s, Err("not readable"))
        ELSE IF ~r.res.ok THEN r
        ELSE Ret(r.s, decode_utf8(r.res.val))

text_io_wrapper_write(s, c, data, out) ==
    LET r == buffered_writer_write(s, data, out)
        written == SubSeq(data, 1, r.res.num)
    IN  IF ClassOf(c, "buffered") # "BufferedWriter" THEN Ret(s, Err("not writable"))
        ELSE IF ~r.res.ok THEN r
        ELSE Ret(r.s, OkInt(chars_count(SubSeq(written, 1, valid_up_to(written)))))

text_io_wrapper_readline(s, c, size, outs) ==
    LET r == io_base_readline(s, c, "buffered", size, outs)
    IN  IF ClassOf(c, "buffered") # "BufferedReader"
        THEN [s |-> s, res |-> Err("not readable"), valid |-> outs = <<>>]
        ELSE IF ~r.res.ok THEN r
        ELSE [s |-> r.s, res |-> decode_utf8(r.res.val), valid |-> r.valid]

\* ------------------------------------------- descriptor chain: the calls
\* What the OS can answer to a read of up to n bytes (n < 0: to the end of
\* the file): an error, or data drawn from a newline and a byte that is not
\* valid UTF-8 on its own.
FdByte == {10, 169}
ReadOutcomes(n) ==
    {[ok |-> FALSE, data |-> <<>>]}
        \cup {[ok |-> TRUE, data |-> d] :
                d \in SeqsUpTo(FdByte, IF n < 0 THEN MaxFdData ELSE Min(n, MaxFdData))}
OsOutcomes == {[ok |-> FALSE, data |-> <<>>], [ok |-> TRUE, data |-> <<>>]}
WriteOutcomes(data) ==
    {[ok |-> FALSE, n |-> 0]} \cup {[ok |-> TRUE, n |-> k] : k \in 0..Len(data)}
FdReadArgs == {<<>>} \cup {<<n>> : n \in 0..MaxFdData}
LineArgs == {<<>>} \cup {<<n>> : n \in 0..MaxLineReads}
\* The answers to the read(1) calls of one readline: only the last read may
\* fail, be empty or end in a newline, since the loop stops there.
LineOutcomes ==
    {outs \in SeqsUpTo(ReadOutcomes(1), MaxLineReads) :
        \A i \in 1..(Len(outs) - 1) :
            outs[i].ok /\ outs[i].data # <<>> /\ outs[i].data[Len(outs[i].data)] # 10}

FdNoCall ==
    [op |-> "open", obj |-> "", arg |-> <<>>, before |-> <<>>, res |-> OkNone,
     events |-> <<>>]

\* What io_open leaves behind for mode letter m and type letter t, with fd
\* the descriptor number os_open returned.
io_open(m, t, fd) ==
    LET c == [mode |-> m, typ |-> t]
    IN  [chain |-> c,
         attrs |-> [o \in Objects(c) |->
                      IF o = "raw"
                      THEN ("closed" :> FALSE) @@ ("closefd" :> FALSE) @@ ("__fileno" :> fd)
                      ELSE ("__closed" :> FALSE)]]

InitFd ==
    /\ \E m \in {"r", "w"}, t \in {"t", "b"}, fd \in {3} :
          /\ chain = io_open(m, t, fd).chain
          /\ attrs = io_open(m, t, fd).attrs
    /\ fdOpen = TRUE
    /\ closeCalls = 0
    /\ closeCalledOn = {}
    /\ call = FdNoCall
    /\ kind = "bytes"
    /\ buffer = <<>>
    /\ history = <<>>
    /\ NoOpenCall

\* One method call on obj: r is what the method resolved on obj's class did.
FdInvoke(obj, op, arg, r) ==
    /\ obj \in Objects(chain)
    /\ r.s.closeCalls <= MaxCloseCalls
    /\ attrs' = r.s.attrs
    /\ fdOpen' = r.s.fdOpen
    /\ closeCalls' = r.s.closeCalls
    /\ closeCalledOn' = IF op = "close" THEN closeCalledOn \cup {obj} ELSE closeCalledOn
    /\ call' = [op |-> op, obj |-> obj, arg |-> arg,
                before |-> <<[attrs |-> attrs, fdOpen |-> fdOpen,
                              closeCalls |-> closeCalls,
                              closeCalledOn |-> closeCalledOn]>>,
                res |-> r.res, events |-> r.s.events]
    /\ UNCHANGED <<memVars, chain, openVars>>

FdRead(obj, size, out) ==
    /\ obj \in Objects(chain)
    /\ FdInvoke(obj, "read", size,
          CASE ClassOf(chain, obj) = "FileIO" -> file_io_read(Cur, size, out)
            [] ClassOf(chain, obj) = "BufferedReader" -> buffered_reader_read(Cur, size, out)
            [] ClassOf(chain, obj) = "TextIOWrapper" ->
                   text_io_wrapper_read(Cur, chain, size, out)
            [] OTHER -> Ret(Cur, Err("AttributeError")))

FdReadinto(obj, readonly, out) ==
    /\ obj \in Objects(chain)
    /\ FdInvoke(obj, "readinto", <<>>,
          IF ClassOf(chain, obj) = "FileIO" THEN file_io_readinto(Cur, readonly, out)
          ELSE Ret(Cur, Err("AttributeError")))

FdWrite(obj, data, out) ==
    /\ obj \in Objects(chain)
    /\ FdInvoke(obj, "write", data,
          CASE ClassOf(chain, obj) = "FileIO" -> file_io_write(Cur, data, out)
            [] ClassOf(chain, obj) = "BufferedWriter" -> buffered_writer_write(Cur, data, out)
            [] ClassOf(chain, obj) = "TextIOWrapper" ->
                   text_io_wrapper_write(Cur, chain, data, out)
            [] OTHER -> Ret(Cur, Err("AttributeError")))

FdReadline(obj, size, outs) ==
    /\ obj \in Objects(chain)
    /\ LET r == IF ClassOf(chain, obj) = "TextIOWrapper"
                THEN text_io_wrapper_readline(Cur, chain, size, outs)
                ELSE io_base_readline(Cur, chain, obj, size, outs)
       IN  /\ r.valid
           /\ FdInvoke(obj, "readline", size, Ret(r.s, r.res))

FdClose(obj, flush_ok) ==
    /\ obj \in Objects(chain)
    /\ FdInvoke(obj, "close", <<>>,
          CASE ClassOf(chain, obj) = "FileIO" -> file_io_close(Cur)
            [] ClassOf(chain, obj) = "BufferedReader" -> buffered_reader_close(Cur)
            [] OTHER -> io_base_close(Cur, chain, obj, flush_ok))

FdFlush(obj, flush_ok) ==
    /\ obj \in Objects(chain)
    /\ FdInvoke(obj, "flush", <<>>, call_flush(Cur, chain, obj, flush_ok))

FdFileno(obj) ==
    /\ obj \in Objects(chain)
    /\ FdInvoke(obj, "fileno", <<>>,
          CASE ClassOf(chain, obj) = "FileIO" -> file_io_fileno(Cur)
            [] ClassOf(chain, obj) \in {"BufferedReader", "BufferedWriter"} ->
                   buffered_io_base_fileno(Cur)
            [] OTHER -> Ret(Cur, Err("AttributeError")))

FdClosed(obj) ==
    /\ obj \in Objects(chain)
    /\ FdInvoke(obj, "closed", <<>>, Ret(Cur, OkBool(closed_attr(Cur, obj))))

AllObjects == {"text", "buffered", "raw", "base"}

NextFd ==
    \/ \E obj \in AllObjects, size \in FdReadArgs :
          \E out \in ReadOutcomes(byte_count(size)) : FdRead(obj, size, out)
    \/ \E obj \in AllObjects, readonly \in BOOLEAN, out \in OsOutcomes :
          FdReadinto(obj, readonly, out)
    \/ \E obj \in AllObjects :
          \E data \in (IF obj = "text" THEN StrData(MaxFdData) ELSE BytesData(MaxFdData)) :
             \E out \in WriteOutcomes(data) : FdWrite(obj, data, out)
    \/ \E obj \in AllObjects, size \in LineArgs, outs \in LineOutcomes :
          FdReadline(obj, size, outs)
    \/ \E obj \in AllObjects, flush_ok \in BOOLEAN : FdClose(obj, flush_ok)
    \/ \E obj \in AllObjects, flush_ok \in BOOLEAN : FdFlush(obj, flush_ok)
    \/ \E obj \in AllObjects : FdFileno(obj)
    \/ \E obj \in AllObjects : FdClosed(obj)

SpecFd == InitFd /\ [][NextFd]_vars

\* --------------------------------------------------- text wrapper writes
\* write(text) calls on the TextIOWrapper of open(path, "w"), over every
\* text of up to MaxText encoded bytes and every answer of the OS write.
MaxText == 3

InitTextWrite ==
    /\ chain = io_open("w", "t", 3).chain
    /\ attrs = io_open("w", "t", 3).attrs
    /\ fdOpen = TRUE
    /\ closeCalls = 0
    /\ closeCalledOn = {}
    /\ call = FdNoCall
    /\ kind = "bytes"
    /\ buffer = <<>>
    /\ history = <<>>
    /\ NoOpenCall

TextWrite(data, out) == FdWrite("text", data, out)

NextTextWrite ==
    \E data \in StrData(MaxText) : \E out \in WriteOutcomes(data) : TextWrite(data, out)

SpecTextWrite == InitTextWrite /\ [][NextTextWrite]_vars

\* ------------------------------------------------ descriptor stream writes
\* write(data) calls on the BufferedWriter of open(path, "wb") and on the
\* FileIO under it, over every data of up to MaxWrite bytes and every
\* answer of the OS write.
MaxWrite == 2

InitByteWrite ==
    /\ chain = io_open("w", "b", 3).chain
    /\ attrs = io_open("w", "b", 3).attrs
    /\ fdOpen = TRUE
    /\ closeCalls = 0
    /\ closeCalledOn = {}
    /\ call = FdNoCall
    /\ kind = "bytes"
    /\ buffer = <<>>
    /\ history = <<>>
    /\ NoOpenCall

RawWrite(data, out) == FdWrite("raw", data, out)
BufferedWrite(data, out) == FdWrite("buffered", data, out)

NextByteWrite ==
    \/ \E data \in BytesData(MaxWrite) : \E out \in WriteOutcomes(data) : RawWrite(data, out)
    \/ \E data \in BytesData(MaxWrite) : \E out \in WriteOutcomes(data) :
          BufferedWrite(data, out)

SpecByteWrite == InitByteWrite /\ [][NextByteWrite]_vars

\* ---------------------------------------------------- text wrapper reads
\* read(size) and readline(size) calls on the TextIOWrapper of
\* open(path, "r"), over every answer of the OS of up to MaxDecode bytes,
\* valid UTF-8 or not.
MaxDecode == 3

\* What the file may hold: a newline, and the two bytes of a two-byte
\* character, each of which is invalid on its own.
DecodeByte == {10, 195, 169}

DecodeArgs == {<<>>} \cup {<<n>> : n \in 0..MaxDecode}

DecodeOutcomes(n) ==
    {[ok |-> FALSE, data |-> <<>>]}
        \cup {[ok |-> TRUE, data |-> d] :
                d \in SeqsUpTo(DecodeByte, IF n < 0 THEN MaxDecode ELSE Min(n, MaxDecode))}

DecodeLineOutcomes ==
    {outs \in SeqsUpTo(DecodeOutcomes(1), MaxDecode) :
        \A i \in 1..(Len(outs) - 1) :
            outs[i].ok /\ outs[i].data # <<>> /\ outs[i].data[Len(outs[i].data)] # 10}

InitTextRead ==
    /\ chain = io_open("r", "t", 3).chain
    /\ attrs = io_open("r", "t", 3).attrs
    /\ fdOpen = TRUE
    /\ closeCalls = 0
    /\ closeCalledOn = {}
    /\ call = FdNoCall
    /\ kind = "bytes"
    /\ buffer = <<>>
    /\ history = <<>>
    /\ NoOpenCall

TextRead(size, out) == FdRead("text", size, out)

TextReadline(size, outs) == FdReadline("text", size, outs)

NextTextRead ==
    \/ \E size \in DecodeArgs :
          \E out \in DecodeOutcomes(byte_count(size)) : TextRead(size, out)
    \/ \E size \in DecodeArgs, outs \in DecodeLineOutcomes : TextReadline(size, outs)

SpecTextRead == InitTextRead /\ [][NextTextRead]_vars

\* ------------------------------------------------------ mode string, open
\* A mode string is a sequence of one-character strings; "" is the '\0' that
\* split_mode_string starts mode and typ with.
MaxModeLen == 3

ModeChar == {"r", "w", "a", "t", "b", "+", "x"}

ModeOk(mode, typ) ==
    [ok |-> TRUE, mode |-> mode, typ |-> typ, err |-> "", errArg |-> <<>>]

ModeErr(msg) ==
    [ok |-> FALSE, mode |-> <<>>, typ |-> <<>>, err |-> msg, errArg |-> <<>>]

\* An error that leaves the offending string out of its message.
invalid_mode_unquoted(mode_string) == ModeErr("invalid mode")

\* format!("invalid mode: '{}'", mode_string)
invalid_mode(mode_string) == [ModeErr("invalid mode") EXCEPT !.errArg = mode_string]

\* The for loop of split_mode_string from character i on, and what follows it.
RECURSIVE split_mode_scan(_, _, _, _, _)
split_mode_scan(mode_string, i, mode, typ, plus_is_set) ==
    IF i > Len(mode_string)
    THEN IF mode = ""
         THEN ModeErr("Must have exactly one of create/read/write/append mode and at most one plus")
         ELSE ModeOk(IF plus_is_set THEN <<mode, "+">> ELSE <<mode>>,
                     IF typ = "" THEN <<"t">> ELSE <<typ>>)
    ELSE LET ch == mode_string[i]
         IN  CASE ch = "+" ->
                    IF plus_is_set THEN invalid_mode(mode_string)
                    ELSE split_mode_scan(mode_string, i + 1, mode, typ, TRUE)
               [] ch \in {"t", "b"} ->
                    IF typ # ""
                    THEN IF typ = ch THEN invalid_mode(mode_string)
                         ELSE ModeErr("can't have text and binary mode at once")
                    ELSE split_mode_scan(mode_string, i + 1, mode, ch, plus_is_set)
               [] ch \in {"a", "r", "w"} ->
                    IF mode # ""
                    THEN IF mode = ch THEN invalid_mode(mode_string)
                         ELSE ModeErr("must have exactly one of create/read/write/append mode")
                    ELSE split_mode_scan(mode_string, i + 1, ch, typ, plus_is_set)
               [] OTHER -> invalid_mode(mode_string)

\* A parser that wants the access letter in front.
split_mode_string_access_first(mode_string) ==
    IF mode_string # <<>> /\ mode_string[1] \notin {"a", "r", "w"}
    THEN invalid_mode(mode_string)
    ELSE split_mode_scan(mode_string, 1, "", "", FALSE)

\* A parser that forgets the '+'.
split_mode_string_without_plus(mode_string) ==
    LET r == split_mode_scan(mode_string, 1, "", "", FALSE)
    IN  IF r.ok THEN [r EXCEPT !.mode = <<r.mode[1]>>] ELSE r

split_mode_string(mode_string) == split_mode_scan(mode_string, 1, "", "", FALSE)

\* Open flags as the set of libc names or-ed together (O_RDONLY is 0).
compute_c_flag(mode) ==
    IF mode = <<>> THEN {"O_RDONLY"}
    ELSE CASE mode[1] = "w" -> {"O_WRONLY", "O_CREAT"}
           [] mode[1] = "x" -> {"O_WRONLY", "O_CREAT", "O_EXCL"}
           [] mode[1] = "a" -> {"O_APPEND"}
           [] mode[1] = "+" -> {"O_RDWR"}
           [] OTHER -> {"O_RDONLY"}

\* file_io_init with a path name: mode is the optional argument, os what
\* os_open answers, [ok, fd].
file_io_init(mode, os) ==
    [ok |-> os.ok,
     flags |-> IF mode # <<>> THEN compute_c_flag(mode[1]) ELSE {"O_RDONLY"},
     fileno |-> os.fd]

OpenOutcomes == {[ok |-> FALSE, fd |-> 0], [ok |-> TRUE, fd |-> 3]}

\* An open that constructs the FileIO from the mode string as given and
\* looks at the parser's verdict afterwards.
io_open_args_parses_late(mode, os) ==
    LET mode_string == IF mode = <<>> THEN <<"r", "t">> ELSE mode[1]
        sp == split_mode_string(mode_string)
        fio == file_io_init(<<IF sp.ok THEN sp.mode ELSE mode_string>>, os)
        built == io_open(sp.mode[1], sp.typ[1], fio.fileno)
        tried == [NoOpen EXCEPT !.op = "open", !.ok = FALSE, !.mode = sp.mode,
                                !.typ = sp.typ, !.flags = fio.flags, !.os_opens = 1]
    IN  IF ~fio.ok
        THEN [tried EXCEPT !.err = "OSError"]
        ELSE IF ~sp.ok
        THEN [tried EXCEPT !.err = sp.err, !.errArg = sp.errArg, !.raw = "FileIO"]
        ELSE IF sp.mode[1] \notin {"w", "r"}
        THEN [tried EXCEPT !.err = "'a' mode is not yet implemented",
                           !.panicked = TRUE]
        ELSE IF sp.typ[1] = "t"
        THEN [tried EXCEPT !.ok = TRUE,
                           !.handle = ClassOf(built.chain, "text"),
                           !.buffer = ClassOf(built.chain, "buffered"),
                           !.raw = ClassOf(built.chain, "raw")]
        ELSE [tried EXCEPT !.ok = TRUE,
                           !.handle = ClassOf(built.chain, "buffered"),
                           !.raw = ClassOf(built.chain, "raw")]

\* io_open from its arguments to its result: mode is the optional mode
\* argument ("rt" when absent), os what os_open answers inside FileIO().
io_open_args(mode, os) ==
    LET mode_string == IF mode = <<>> THEN <<"r", "t">> ELSE mode[1]
        sp == split_mode_string(mode_string)
        fio == file_io_init(<<sp.mode>>, os)
        built == io_open(sp.mode[1], sp.typ[1], fio.fileno)
        tried == [NoOpen EXCEPT !.op = "open", !.ok = FALSE, !.mode = sp.mode,
                                !.typ = sp.typ, !.flags = fio.flags, !.os_opens = 1]
    IN  IF ~sp.ok
        THEN [NoOpen EXCEPT !.op = "open", !.ok = FALSE, !.err = sp.err,
                            !.errArg = sp.errArg]
        ELSE IF ~fio.ok
        THEN [tried EXCEPT !.err = "OSError"]
        ELSE IF sp.mode[1] \notin {"w", "r"}
        THEN [tried EXCEPT !.err = "'a' mode is not yet implemented",
                           !.panicked = TRUE]
        ELSE IF sp.typ[1] = "t"
        THEN [tried EXCEPT !.ok = TRUE,
                           !.handle = ClassOf(built.chain, "text"),
                           !.buffer = ClassOf(built.chain, "buffered"),
                           !.raw = ClassOf(built.chain, "raw")]
        ELSE [tried EXCEPT !.ok = TRUE,
                           !.handle = ClassOf(built.chain, "buffered"),
                           !.raw = ClassOf(built.chain, "raw")]

ModeArgs == {<<>>} \cup {<<m>> : m \in SeqsUpTo(ModeChar, MaxModeLen)}

InitOpen ==
    /\ modeArg \in ModeArgs
    /\ opened = NoOpen
    /\ kind = "bytes"
    /\ buffer = <<>>
    /\ history = <<>>
    /\ call = NoCall
    /\ NoDescriptor

SplitMode ==
    /\ modeArg # <<>>
    /\ LET r == split_mode_string(modeArg[1])
       IN  opened' = [NoOpen EXCEPT !.op = "split_mode_string", !.ok = r.ok,
                                    !.err = r.err, !.errArg = r.errArg,
                                    !.mode = r.mode, !.typ = r.typ]
    /\ UNCHANGED <<modeArg, memVars, call, fdVars>>

FileIoInit(os) ==
    /\ LET r == file_io_init(modeArg, os)
       IN  opened' = [NoOpen EXCEPT !.op = "FileIO", !.ok = r.ok,
                                    !.err = IF r.ok THEN "" ELSE "OSError",
                                    !.flags = r.flags, !.os_opens = 1,
                                    !.raw = IF r.ok THEN "FileIO" ELSE ""]
    /\ UNCHANGED <<modeArg, memVars, call, fdVars>>

IoOpen(os) ==
    /\ opened' = io_open_args(modeArg, os)
    /\ UNCHANGED <<modeArg, memVars, call, fdVars>>

NextOpen ==
    \/ SplitMode
    \/ \E os \in OpenOutcomes : FileIoInit(os)
    \/ \E os \in OpenOutcomes : IoOpen(os)

SpecOpen == InitOpen /\ [][NextOpen]_vars

\* ------------------------------------------------- descriptor chain claims
Before == call.before[1]

FlushEvents == {i \in DOMAIN call.events : call.events[i].ev = "flush"}

\* C1: on each stream of the chain (text wrapper, buffered reader or writer,
\* raw descriptor stream), once close() has been called on it, every read,
\* write or readline the stream offers fails with "I/O operation on closed
\* file.", and a further close() raises nothing.
C1_ClosedStreamRejectsIO ==
    call.op # "open" /\ call.obj \in {"text", "buffered", "raw"}
            /\ call.obj \in Before.closeCalledOn =>
        /\ call.op \in {"read", "write", "readline"}
               /\ call.res.err \notin {"AttributeError", "not readable", "not writable"}
             => ~call.res.ok /\ call.res.err = ClosedMsg
        /\ call.op = "close" => call.res.ok

\* C2: whatever is called on the chain, the OS releases the owned descriptor
\* at most once.
C2_DescriptorReleasedOnce == closeCalls <= 1

\* C3: no OS read or write is issued on the descriptor after its release; a
\* read or write on the raw stream after release fails with "I/O operation
\* on closed file.".
C3_NoIOAfterRelease ==
    call.op # "open" =>
        /\ \A i \in DOMAIN call.events :
              call.events[i].ev \in {"read", "write"} => call.events[i].live
        /\ call.obj = "raw" /\ call.op \in {"read", "write"} /\ ~Before.fdOpen
             => ~call.res.ok /\ call.res.err = ClosedMsg

\* C4: _IOBase.close() on a stream that is not closed calls flush() exactly
\* once, leaves the closed flag true whether or not flush failed, and hands
\* a flush failure to its caller; on a closed stream it calls no flush,
\* changes nothing and succeeds.
C4_BaseCloseFlushesOnceAndCommits ==
    call.op = "close"
            /\ ClassOf(chain, call.obj) \in {"TextIOWrapper", "BufferedWriter", "IOBaseSubclass"} =>
        IF ~Before.attrs[call.obj]["__closed"]
        THEN /\ Cardinality(FlushEvents) = 1
             /\ \A i \in FlushEvents :
                   /\ call.events[i].obj = call.obj
                   /\ call.res.ok = call.events[i].ok
             /\ attrs[call.obj]["__closed"]
        ELSE /\ FlushEvents = {}
             /\ call.res.ok
             /\ attrs = Before.attrs
             /\ fdOpen = Before.fdOpen
             /\ closeCalls = Before.closeCalls

C4_Witness ==
    /\ call.op = "close"
    /\ call.obj = "base"
    /\ ~Before.attrs["base"]["__closed"]
    /\ ~call.res.ok
    /\ attrs["base"]["__closed"]

\* ------------------------------------------------- in-memory stream claims
MemOps == {"read", "write", "seek", "tell", "readline", "truncate", "getvalue"}

\* C5: once an in-memory stream (BytesIO or StringIO) is closed, read, write,
\* seek, tell, readline, truncate and getvalue each fail with "I/O operation
\* on closed file." and leave the state as it was, the closed query answers
\* true, and every further close() succeeds.
C5_ClosedMemoryStreamInert ==
    /\ call.op = "close" => call.res.ok /\ buffer = <<>>
    /\ call.op # "new" /\ call.before = <<>> =>
          /\ buffer = <<>>
          /\ call.op \in MemOps => ~call.res.ok /\ call.res.err = ClosedMsg
          /\ call.op = "closed" => call.res.ok /\ call.res.flag
          /\ call.op = "close" => call.res.ok

C5_Witness ==
    /\ call.before = <<>>
    /\ call.op \in MemOps
    /\ ~call.res.ok

\* C6: read(n) on an open BytesIO returns bytes[position .. end] when n < 0
\* and bytes[position .. min(position+n, len)] when n >= 0 (n = 0 included),
\* never fails, and advances position by the number of bytes returned.
C6_ReadReturnsAtMostN ==
    call.op = "read" /\ kind = "bytes" /\ call.before # <<>> =>
        LET c == call.before[1]
            n == byte_count(call.arg)
            len == Len(c.inner)
            upto == IF n < 0 THEN len ELSE Min(c.pos + n, len)
        IN  /\ call.res.ok
            /\ call.res.val = SubSeq(c.inner, c.pos + 1, upto)
            /\ buffer[1].pos = c.pos + Len(call.res.val)

\* C7 as stated: write(data) at position p leaves data at [p, p+len(data)),
\* position p+len(data), length max(old length, p+len(data)), the old bytes
\* outside the written range unchanged, and returns len(data), for every
\* data and every p.
C7_WriteAsStated ==
    call.op = "write" /\ call.before # <<>> =>
        LET c == call.before[1]
            d == call.arg
            p == c.pos
            a == buffer[1]
        IN  /\ call.res.ok
            /\ call.res.num = Len(d)
            /\ a.pos = p + Len(d)
            /\ Len(a.inner) = Max(Len(c.inner), p + Len(d))
            /\ SubSeq(a.inner, p + 1, p + Len(d)) = d
            /\ \A i \in 1..Len(c.inner) :
                  (i <= p \/ i > p + Len(d)) => a.inner[i] = c.inner[i]

\* C7 amended: the same, except that the length is max(old length,
\* p+len(data)) only for non-empty data; an empty write returns 0, keeps
\* the position and keeps every old byte.
C7_WriteNonEmptyExtends ==
    call.op = "write" /\ call.before # <<>> =>
        LET c == call.before[1]
            d == call.arg
            p == c.pos
            a == buffer[1]
        IN  /\ call.res.ok
            /\ call.res.num = Len(d)
            /\ a.pos = p + Len(d)
            /\ Len(a.inner) >= Len(c.inner)
            /\ d # <<>> => Len(a.inner) = Max(Len(c.inner), p + Len(d))
            /\ d # <<>> => SubSeq(a.inner, p + 1, p + Len(d)) = d
            /\ \A i \in 1..Len(c.inner) :
                  (i <= p \/ i > p + Len(d)) => a.inner[i] = c.inner[i]

C7_Witness ==
    /\ call.op = "write"
    /\ call.before # <<>>
    /\ call.arg # <<>>
    /\ call.before[1].pos > Len(call.before[1].inner)
    /\ call.before[1].inner # <<>>

\* C8: seek(k) on an open in-memory stream returns k, sets position to k and
\* keeps the contents, so tell() is then k and read(m), m > 0, yields
\* bytes[k .. min(k+m, len)].
C8_SeekThenRead ==
    call.op = "seek" /\ call.before # <<>> =>
        LET k == call.arg[1]
            c == call.before[1]
            a == buffer[1]
        IN  /\ call.res.ok
            /\ call.res.num = k
            /\ a.pos = k
            /\ a.inner = c.inner
            /\ BufferedIO_tell(a) = k
            /\ \A m \in 1..MaxRead :
                  BufferedIO_read(a, m).ret
                      = <<SubSeq(c.inner, k + 1, Min(k + m, Len(c.inner)))>>

C8_Witness ==
    /\ call.op = "seek"
    /\ call.before # <<>>
    /\ call.arg[1] > 0
    /\ call.arg[1] < Len(buffer[1].inner)
    /\ call.before[1].pos # call.arg[1]

\* C9: truncate(size), size defaulting to the position, leaves the first
\* min(size, old length) bytes and the position where it was, also when the
\* position is then past the new end.
C9_TruncateShrinksOnly ==
    call.op = "truncate" /\ call.before # <<>> =>
        LET c == call.before[1]
            size == IF call.arg = <<>> THEN c.pos ELSE call.arg[1]
        IN  /\ call.res.ok
            /\ buffer[1].inner = SubSeq(c.inner, 1, Min(size, Len(c.inner)))
            /\ BufferedIO_tell(buffer[1]) = c.pos

C9_Witness ==
    /\ call.op = "truncate"
    /\ call.before # <<>>
    /\ call.arg # <<>>
    /\ Len(buffer[1].inner) < Len(call.before[1].inner)
    /\ buffer[1].pos > Len(buffer[1].inner)

\* C10: on a fresh BytesIO, write(d); seek(0); read() returns exactly d.
C10_BinaryRoundTrip ==
    Len(history) = 4 =>
        /\ history[4].res.ok
        /\ history[4].res.val = history[2].arg

C10_Witness ==
    /\ Len(history) = 4
    /\ Len(history[2].arg) >= 2
    /\ history[4].op = "read"

\* C11 (as stated): write(d) on a fresh BytesIO followed at once by read(-1)
\* returns exactly d.
C11_WriteThenReadReturnsData ==
    Len(history) = 3 /\ history[1].arg = <<>> =>
        history[3].res.ok /\ history[3].res.val = history[2].arg

\* C11 (amended): read(-1) on a BytesIO constructed with contents d returns
\* exactly d; after a write(d) the position is past the written bytes, so a
\* read(-1) that follows without a seek returns only the constructed
\* contents beyond them, which is nothing on a fresh buffer.
C11_ReadAllFromPosition ==
    /\ Len(history) = 2 /\ history[2].op = "read" =>
          history[2].res.ok /\ history[2].res.val = history[1].arg
    /\ Len(history) = 3 =>
          /\ history[3].res.ok
          /\ history[3].res.val =
                SubSeq(history[1].arg, Len(history[2].arg) + 1, Len(history[1].arg))

C11_Witness ==
    /\ Len(history) = 3
    /\ history[1].arg = <<>>
    /\ history[2].op = "write"
    /\ Len(history[2].arg) = MaxData
    /\ history[3].op = "read"
    /\ history[3].res.val = <<>>

\* C12: getvalue() on an open byte buffer returns the whole contents wherever
\* the position is (at the start, inside or past the end of the contents)
\* and leaves contents and position as they were.
C12_GetvalueWholeContents ==
    call.op = "getvalue" /\ call.before # <<>> =>
        /\ buffer = call.before
        /\ kind = "bytes" => call.res.ok
        /\ call.res.ok => call.res.val = call.before[1].inner

C12_Witness ==
    /\ call.op = "getvalue"
    /\ kind = "bytes"
    /\ call.before # <<>>
    /\ call.before[1].inner # <<>>
    /\ call.before[1].pos > Len(call.before[1].inner)
    /\ call.res.val = call.before[1].inner

\* C13: readline() on an open BytesIO, whatever the bytes and the position,
\* succeeds, returns the bytes from the position through the next newline
\* (or to the end when none follows) and advances the position by the
\* number of bytes returned.
C13_ReadlineReturnsLine ==
    call.op = "readline" /\ kind = "bytes" /\ call.before # <<>> =>
        LET c == call.before[1]
            len == Len(c.inner)
            start == Min(c.pos, len)
            nls == {i \in (start + 1)..len : c.inner[i] = 10}
            stop == IF nls = {} THEN len ELSE CHOOSE i \in nls : \A j \in nls : i <= j
        IN  /\ call.res.ok
            /\ call.res.val = SubSeq(c.inner, start + 1, stop)
            /\ buffer[1].pos = c.pos + Len(call.res.val)

\* ------------------------------------------------- mode string, open claims
AccessLetter == {"r", "w", "a"}
TypeLetter == {"t", "b"}

\* C14: for a mode string made of one access letter, then an optional '+',
\* then an optional type letter, split_mode_string succeeds with the access
\* letter (followed by '+' exactly when it was given) and the type letter,
\* 't' when none was given.
C14_ModeParserAcceptsGrammar ==
    opened.op = "split_mode_string" =>
        \A a \in AccessLetter, p \in {<<>>, <<"+">>}, t \in {<<>>, <<"t">>, <<"b">>} :
            modeArg[1] = <<a>> \o p \o t =>
                /\ opened.ok
                /\ opened.mode = <<a>> \o p
                /\ opened.typ = IF t = <<>> THEN <<"t">> ELSE t

C14_Witness ==
    /\ opened.op = "split_mode_string"
    /\ modeArg[1] = <<"w", "+", "b">>
    /\ opened.ok
    /\ opened.mode = <<"w", "+">>
    /\ opened.typ = <<"b">>

\* C15: split_mode_string rejects every string that is not one access
\* letter, at most one '+' and at most one type letter, and the first
\* offending character from the left fixes the message: a character outside
\* {r,w,a,t,b,+}, a second '+', a repeated type letter or a repeated access
\* letter gives "invalid mode: '<the string>'"; a type letter unlike the one
\* seen gives "can't have text and binary mode at once"; an access letter
\* unlike the one seen gives "must have exactly one of create/read/write/
\* append mode"; no offence but no access letter gives "Must have exactly
\* one of create/read/write/append mode and at most one plus".
C15_ModeParserRejections ==
    opened.op = "split_mode_string" =>
        LET s == modeArg[1]
            Earlier(i, S) == {j \in 1..(i - 1) : s[j] \in S}
            Offends(i) ==
                \/ s[i] \notin AccessLetter \cup TypeLetter \cup {"+"}
                \/ s[i] = "+" /\ Earlier(i, {"+"}) # {}
                \/ s[i] \in TypeLetter /\ Earlier(i, TypeLetter) # {}
                \/ s[i] \in AccessLetter /\ Earlier(i, AccessLetter) # {}
            offs == {i \in 1..Len(s) : Offends(i)}
            first == CHOOSE i \in offs : \A j \in offs : i <= j
            Count(S) == Cardinality({i \in 1..Len(s) : s[i] \in S})
            WellFormed ==
                /\ \A i \in 1..Len(s) : s[i] \in AccessLetter \cup TypeLetter \cup {"+"}
                /\ Count(AccessLetter) = 1
                /\ Count({"+"}) <= 1
                /\ Count(TypeLetter) <= 1
        IN  /\ ~WellFormed => ~opened.ok
            /\ IF offs # {}
               THEN /\ ~opened.ok
                    /\ IF s[first] \in TypeLetter
                          /\ \E j \in Earlier(first, TypeLetter) : s[j] # s[first]
                       THEN opened.err = "can't have text and binary mode at once"
                       ELSE IF s[first] \in AccessLetter
                               /\ \E j \in Earlier(first, AccessLetter) : s[j] # s[first]
                       THEN opened.err = "must have exactly one of create/read/write/append mode"
                       ELSE opened.err = "invalid mode" /\ opened.errArg = s
               ELSE IF Count(AccessLetter) = 0
               THEN /\ ~opened.ok
                    /\ opened.err = "Must have exactly one of create/read/write/append mode and at most one plus"
               ELSE opened.ok

C15_Witness ==
    /\ opened.op = "split_mode_string"
    /\ modeArg[1] = <<"a", "+", "+">>
    /\ ~opened.ok
    /\ opened.err = "invalid mode"
    /\ opened.errArg = modeArg[1]

\* C16: open() with a mode whose access is 'r' or 'w' opens one new
\* descriptor stream and, unless the OS refuses the open, returns: for 'w'
\* a BufferedWriter over it, for 'r' a BufferedReader over it; for type
\* text a TextIOWrapper whose "buffer" is that decorator, for type binary
\* the decorator itself.
C16_OpenComposesChain ==
    opened.op = "open" /\ opened.mode # <<>> /\ opened.mode[1] \in {"r", "w"} =>
        LET decorator == IF opened.mode[1] = "w" THEN "BufferedWriter"
                         ELSE "BufferedReader"
        IN  /\ opened.os_opens = 1
            /\ ~opened.panicked
            /\ opened.ok <=> opened.err # "OSError"
            /\ opened.ok =>
                  /\ opened.raw = "FileIO"
                  /\ opened.typ = <<"t">> =>
                        opened.handle = "TextIOWrapper" /\ opened.buffer = decorator
                  /\ opened.typ = <<"b">> => opened.handle = decorator

C16_Witness ==
    /\ opened.op = "open"
    /\ opened.ok
    /\ opened.mode = <<"w", "+">>
    /\ opened.typ = <<"t">>
    /\ opened.handle = "TextIOWrapper"
    /\ opened.buffer = "BufferedWriter"

\* C17: open() with a valid append mode returns an error to its caller: it
\* returns no stream and does not abort.
C17_AppendReturnsError ==
    opened.op = "open" /\ opened.mode # <<>> /\ opened.mode[1] = "a" =>
        /\ ~opened.ok
        /\ opened.handle = ""
        /\ ~opened.panicked

\* C18: when a descriptor stream is constructed from a path with a mode of
\* an access letter and an optional '+' (as the mode parser produces), or
\* with no mode, the flags handed to the OS open are write|create for 'w',
\* append for 'a', read-only for 'r' or no mode, and contain read-write
\* whenever the mode carries '+'.
C18_OpenFlagsFollowMode ==
    LET m == IF opened.op = "open" THEN opened.mode
             ELSE IF modeArg = <<>> THEN <<>> ELSE modeArg[1]
        plain == {<<a>> : a \in AccessLetter}
        plus == {<<a, "+">> : a \in AccessLetter}
    IN  opened.op \in {"open", "FileIO"} /\ opened.os_opens = 1 =>
            /\ m = <<"w">> => opened.flags = {"O_WRONLY", "O_CREAT"}
            /\ m = <<"a">> => opened.flags = {"O_APPEND"}
            /\ m \in {<<>>, <<"r">>} => opened.flags = {"O_RDONLY"}
            /\ m \in plus => "O_RDWR" \in opened.flags

\* ------------------------------------------------------ text wrapper claims
\* C19: a successful write(text) on the text wrapper, the inner write having
\* reported k bytes of the UTF-8 encoding, returns the number of leading
\* characters whose whole encoding lies within the first k bytes (a
\* character cut by k is not counted); when k is the whole length that is
\* the number of characters of text.
C19_TextWriteCountsCharacters ==
    call.op = "write" /\ call.obj = "text" /\ call.res.ok =>
        LET bytes == call.arg
            k == call.events[1].n
            starts == {i \in 1..Len(bytes) : bytes[i] \notin 128..191}
            EndOf(i) == IF \E j \in starts : j > i
                        THEN (CHOOSE j \in starts :
                                 j > i /\ \A h \in starts : h > i => j <= h) - 1
                        ELSE Len(bytes)
        IN  /\ Len(call.events) = 1
            /\ call.events[1].ev = "write"
            /\ call.res.num = Cardinality({i \in starts : EndOf(i) <= k})
            /\ k = Len(bytes) => call.res.num = Cardinality(starts)

C19_Witness ==
    /\ call.op = "write"
    /\ call.obj = "text"
    /\ call.res.ok
    /\ call.arg = <<0, 195, 169>>
    /\ call.events[1].n = 2
    /\ call.res.num = 1

\* C20: read and readline on a text wrapper whose inner stream is not a
\* BufferedReader fail with "not readable", and write on one whose inner
\* stream is not a BufferedWriter fails with "not writable"; the failing
\* call reaches no read, readline or write of the inner stream and changes
\* no stream state.
C20_TextCapabilityChecksFirst ==
    call.op \in {"read", "readline", "write"} /\ call.obj = "text" =>
        LET needed == IF call.op = "write" THEN "BufferedWriter" ELSE "BufferedReader"
        IN  ClassOf(chain, "buffered") # needed =>
                /\ ~call.res.ok
                /\ call.res.err = IF call.op = "write" THEN "not writable"
                                  ELSE "not readable"
                /\ call.events = <<>>
                /\ attrs = Before.attrs
                /\ fdOpen = Before.fdOpen
                /\ closeCalls = Before.closeCalls

C20_Witness ==
    /\ call.op = "read"
    /\ call.obj = "text"
    /\ ClassOf(chain, "buffered") = "BufferedWriter"
    /\ call.res.err = "not readable"
    /\ Before.fdOpen
    /\ fdOpen

\* ------------------------------------------------ descriptor stream claims
\* C21: a write(data) on the descriptor stream, or on the BufferedWriter over
\* it, that returns without error has handed every byte of data to the OS
\* and returns len(data), also when one OS write accepts fewer bytes.
C21_WriteWritesEverything ==
    call.op = "write" /\ call.obj \in {"raw", "buffered"} /\ call.res.ok =>
        LET writes == {i \in DOMAIN call.events : call.events[i].ev = "write"}
            Accepted[S \in SUBSET writes] ==
                IF S = {} THEN 0
                ELSE LET i == CHOOSE j \in S : TRUE
                     IN  call.events[i].n + Accepted[S \ {i}]
        IN  /\ call.res.num = Len(call.arg)
            /\ Accepted[writes] = Len(call.arg)

\* C22: close() on the BufferedReader or BufferedWriter that open() built
\* closes the raw stream under it: when the call has returned, the raw
\* stream's closed flag is true and its descriptor is released.
C22_BufferedCloseClosesRaw ==
    call.op = "close" /\ call.obj = "buffered" /\ call.res.ok =>
        /\ attrs["raw"]["closed"]
        /\ ~fdOpen

\* C27: when close() on the handle that open() returned (the TextIOWrapper
\* for a text mode, the buffered stream for a binary mode) has returned,
\* the descriptor that open() obtained is released.
C27_HandleCloseReleasesDescriptor ==
    call.op = "close"
            /\ call.obj = (IF chain.typ = "t" THEN "text" ELSE "buffered") =>
        ~fdOpen

\* C28: a read, readinto or write on a descriptor stream that is open,
\* whether it succeeds or returns an OS error, leaves the descriptor open,
\* the stored descriptor number as it was and the closed flag false.
C28_OnlyCloseReleasesDescriptor ==
    call.op \in {"read", "readinto", "write"} /\ call.obj = "raw"
            /\ Before.fdOpen /\ ~Before.attrs["raw"]["closed"] =>
        /\ fdOpen
        /\ closeCalls = Before.closeCalls
        /\ attrs["raw"]["__fileno"] = Before.attrs["raw"]["__fileno"]
        /\ ~attrs["raw"]["closed"]

\* The bytes that the OS reads of the last call delivered, in order.
RECURSIVE ObtainedFrom(_)
ObtainedFrom(events) ==
    IF events = <<>> THEN <<>>
    ELSE (IF Head(events).ev = "read" THEN Head(events).data ELSE <<>>)
             \o ObtainedFrom(Tail(events))

Obtained == ObtainedFrom(call.events)

\* The offset of the first byte that is not part of a valid encoding: the
\* length of the longest prefix that is valid UTF-8.
FirstUndecodable(bytes) ==
    CHOOSE p \in 0..Len(bytes) :
        /\ from_utf8_ok(SubSeq(bytes, 1, p))
        /\ \A q \in (p + 1)..Len(bytes) : ~from_utf8_ok(SubSeq(bytes, 1, q))

\* C24: a read or readline on the text wrapper whose inner reads all
\* succeeded returns the decoding of the bytes obtained when they are valid
\* UTF-8, and otherwise fails with a decode error whose index is the offset,
\* in those bytes, of the first byte that is not part of a valid encoding.
C24_TextReadDecodesOrReportsIndex ==
    call.op \in {"read", "readline"} /\ call.obj = "text"
            /\ ClassOf(chain, "buffered") = "BufferedReader"
            /\ (\A i \in DOMAIN call.events : call.events[i].ok) =>
        IF from_utf8_ok(Obtained)
        THEN call.res.ok /\ call.res.val = Obtained
        ELSE /\ ~call.res.ok
             /\ call.res.err = "cannot decode byte at index"
             /\ call.res.num = FirstUndecodable(Obtained)
             /\ call.res.num < Len(Obtained)
             /\ ~from_utf8_ok(SubSeq(Obtained, 1, call.res.num + 1))

\* A readline that gathered three bytes over three reads and failed at the
\* third of them.
C24_Witness ==
    /\ call.op = "readline" /\ call.obj = "text"
    /\ Len(call.events) = 3
    /\ ~call.res.ok
    /\ call.res.err = "cannot decode byte at index"
    /\ call.res.num = 2

\* ------------------------------------------------------- open, mode claims
\* The mode string open() hands to the parser.
ModeString == IF modeArg = <<>> THEN <<"r", "t">> ELSE modeArg[1]

\* C25: when the mode parser rejects the mode string, open() fails with the
\* parser's message before anything is constructed: no OS open is made and
\* no descriptor, buffered or text stream object exists.
C25_RejectedModeOpensNothing ==
    opened.op = "open" /\ ~split_mode_string(ModeString).ok =>
        /\ ~opened.ok /\ ~opened.panicked
        /\ opened.err = split_mode_string(ModeString).err
        /\ opened.os_opens = 0
        /\ opened.flags = {}
        /\ opened.raw = "" /\ opened.buffer = "" /\ opened.handle = ""

C25_Witness ==
    /\ opened.op = "open"
    /\ modeArg = << <<"r", "b", "t">> >>
    /\ ~opened.ok
    /\ opened.err = "can't have text and binary mode at once"
    /\ opened.os_opens = 0

\* Every reordering of the characters of a string.
Reorderings(str) ==
    {[i \in 1..Len(str) |-> str[f[i]]] : f \in Permutations(1..Len(str))}

\* C30: whatever string the mode parser accepts, it accepts every
\* permutation of that string's characters with the same (access, type).
C30_ModeParserIgnoresOrder ==
    opened.op = "split_mode_string" /\ opened.ok =>
        \A p \in Reorderings(modeArg[1]) :
            /\ split_mode_string(p).ok
            /\ split_mode_string(p).mode = opened.mode
            /\ split_mode_string(p).typ = opened.typ

C30_Witness ==
    /\ opened.op = "split_mode_string"
    /\ modeArg[1] = <<"b", "+", "w">>
    /\ opened.ok
    /\ opened.mode = <<"w", "+">>
    /\ opened.typ = <<"b">>
    /\ <<"w", "b", "+">> \in Reorderings(modeArg[1])

\* ------------------------------------------- in-memory stream: the position
\* The last call took an open stream from position <= len(bytes) to
\* position > len(bytes).
MovedPastEnd ==
    /\ call.op # "new" /\ call.before # <<>> /\ buffer # <<>>
    /\ Before.pos <= Len(Before.inner)
    /\ buffer[1].pos > Len(buffer[1].inner)

\* C26 as stated: the position of an in-memory stream is never negative, and
\* seek is the only operation that takes the stream from position <=
\* len(bytes) to position > len(bytes).
C26_OnlySeekMovesPastEnd ==
    /\ buffer # <<>> => buffer[1].pos >= 0
    /\ MovedPastEnd => call.op = "seek"

\* C26, amended: the position is never negative, and seek and truncate are
\* the only operations that take the stream from position <= len(bytes) to
\* position > len(bytes); read, readline, write, getvalue and tell each
\* preserve position <= len(bytes).
C26_OnlySeekAndTruncateMovePastEnd ==
    /\ buffer # <<>> => buffer[1].pos >= 0
    /\ MovedPastEnd => call.op \in {"seek", "truncate"}
    /\ call.op \in {"read", "readline", "write", "getvalue", "tell"}
            /\ call.before # <<>> /\ Before.pos <= Len(Before.inner) =>
          buffer # <<>> /\ buffer[1].pos <= Len(buffer[1].inner)

\* A truncate below the position: the contents shrink under it.
C26_Witness ==
    /\ MovedPastEnd
    /\ call.op = "truncate"
    /\ buffer[1].pos = Before.pos
    /\ Len(buffer[1].inner) < Len(Before.inner)

\* C29: a read(n) or readline() on an open in-memory stream that returns an
\* error leaves the contents and the position as they were before the call.
C29_FailedReadLeavesStreamUnchanged ==
    call.op \in {"read", "readline"} /\ call.before # <<>> /\ ~call.res.ok =>
        buffer = call.before

\* ------------------------------------------------------- iteration claims
\* The lines the next() calls of the history returned, concatenated.
RECURSIVE LinesOf(_)
LinesOf(h) ==
    IF h = <<>> THEN <<>>
    ELSE (IF Head(h).op = "next" /\ Head(h).res.ok THEN Head(h).res.val ELSE <<>>)
             \o LinesOf(Tail(h))

\* The position the iteration started from.
IterStart ==
    IF Len(history) >= 2 /\ history[2].op = "seek" THEN history[2].arg[1] ELSE 0

\* C23: over an in-memory stream, each next() returns a non-empty line or
\* signals the end of the iteration, and when the end is signalled the
\* lines returned, concatenated, are the contents from the starting
\* position to the end.
C23_IterationYieldsContents ==
    history # <<>> /\ call.op = "next" =>
        /\ call.res.ok \/ call.res.err = "StopIteration"
        /\ call.res.ok => call.res.val # <<>>
        /\ call.res.err = "StopIteration" =>
              LinesOf(history)
                  = SubSeq(history[1].arg, IterStart + 1, Len(history[1].arg))

====
